---- MODULE Spec2Model ----
(***************************************************************************)
(* The ChatBot component of src/src/components/ChatBot.tsx as a state      *)
(* machine: the React state hooks, the closure the last render captured,   *)
(* the suspended invocations of handleSendMessage, the clock and the       *)
(* network.  The handlers are the component's interface: the presentation  *)
(* (disabled buttons, conditional rendering) does not restrict when they   *)
(* are called.                                                             *)
(*                                                                         *)
(* A text is a sequence of fragments (strings); the string it stands for   *)
(* is the concatenation of its fragments.  Error texts are spelled one     *)
(* character per fragment, so that String.includes is a real substring     *)
(* search; a whitespace character is always a fragment of its own, so that *)
(* String.trim is a real strip of both ends.                               *)
(***************************************************************************)
EXTENDS Integers, Sequences, FiniteSets, TLC

(* ------------------------------ bounds --------------------------------- *)

\* Accepted sends (dispatch cycles) per session.
MaxCycles ==
    2

\* Accepted sends per session where every error text is tried.
MaxErrorCycles ==
    1

\* Accepted sends per session where resolution is fair.
MaxLiveCycles ==
    1

\* Accepted sends per session where the user can type a suggestion's text.
MaxSuggestCycles ==
    1

\* Accepted sends per session where the clock runs.
MaxClockCycles ==
    1

\* The last instant (millisecond) the clock reaches.
MaxNow ==
    3

(* ------------------------------- texts --------------------------------- *)

TokModelNotFound ==
    <<"m", "o", "d", "e", "l", "_", "n", "o", "t", "_", "f", "o", "u", "n", "d">>

TokRateLimit ==
    <<"r", "a", "t", "e", "_", "l", "i", "m", "i", "t">>

TokInvalidRequest ==
    <<"i", "n", "v", "a", "l", "i", "d", "_", "r", "e", "q", "u", "e", "s", "t",
      "_", "e", "r", "r", "o", "r">>

FailedToGetResponse ==
    <<"F", "a", "i", "l", "e", "d", " ", "t", "o", " ", "g", "e", "t", " ",
      "r", "e", "s", "p", "o", "n", "s", "e">>

ErrorDesconocido ==
    <<"E", "r", "r", "o", "r", " ", "d", "e", "s", "c", "o", "n", "o", "c", "i",
      "d", "o">>

LeadIn ==
    <<"Lo siento, hubo un error procesando tu mensaje: ">>

TemplateModel ==
    <<"Hay un problema con el modelo de AI. Por favor, contacta al administrador.">>

TemplateRate ==
    <<"Estamos procesando demasiadas peticiones. Por favor, espera un momento y vuelve a intentar.">>

TemplateInvalid ==
    <<"La solicitud no es valida. Por favor, intenta reformular tu pregunta.">>

TemplateUnknown ==
    <<"Por favor, intenta de nuevo en unos momentos.">>

\* The five suggested prompts, each one fragment (accents dropped).
SUGGESTED_QUERIES ==
    << <<"Cual es la ultima imagen en la base de datos?">>,
       <<"Hay alguna imagen similar a la ultima subida?">>,
       <<"Cual es el sentimiento general de los ultimos textos?">>,
       <<"Resume los ultimos 3 documentos">>,
       <<"Hay audios en espanol?">> >>

\* What the user can have typed into the input: nothing, blanks only, a
\* word between blanks.
TypedTexts ==
    { <<>>, <<" ">>, <<" ", "a", " ">> }

\* Raw texts an error can carry: no token, each token, several tokens in
\* every order of priority, a token in the wrong case, a token cut short.
Boom ==
    <<"b", "o", "o", "m">>

UpperRateLimit ==
    <<"R", "A", "T", "E", "_", "L", "I", "M", "I", "T">>

\* The message of the TypeError that reading data.response throws when the
\* body parsed to null (the wording is the engine's; none carries a token).
DataIsNull ==
    <<"d", "a", "t", "a", " ", "i", "s", " ", "n", "u", "l", "l">>

ErrorTexts ==
    { Boom,
      TokModelNotFound \o <<":", " ", "x">>,
      TokRateLimit \o <<" ", "e", "x", "c", "e", "e", "d", "e", "d">>,
      TokInvalidRequest \o <<":", " ", "b", "a", "d", " ", "f", "i", "e", "l", "d">>,
      TokRateLimit \o <<" ">> \o TokModelNotFound,
      TokInvalidRequest \o <<" ">> \o TokRateLimit,
      TokInvalidRequest \o <<" ">> \o TokModelNotFound,
      Boom \o TokInvalidRequest \o TokRateLimit \o TokModelNotFound,
      UpperRateLimit,
      SubSeq(TokRateLimit, 1, Len(TokRateLimit) - 1) }

\* String.prototype.trim: the text without its leading and trailing blanks.
IsWhiteSpace(c) ==
    c \in {" ", "\t", "\n"}

Trim(s) ==
    LET solid == {i \in 1..Len(s) : ~IsWhiteSpace(s[i])}
        first == CHOOSE i \in solid : \A j \in solid : i <= j
        last  == CHOOSE i \in solid : \A j \in solid : j <= i
    IN  IF solid = {} THEN <<>> ELSE SubSeq(s, first, last)

\* String.prototype.includes: t occurs in s as a contiguous run.
Includes(s, t) ==
    \E k \in 0..(Len(s) - Len(t)) : \A j \in 1..Len(t) : s[k + j] = t[j]

(* ----------------------------- JS values ------------------------------- *)

Null ==
    [null |-> TRUE]

Undefined ==
    [undefined |-> TRUE]

\* JavaScript truthiness of a value that is null, undefined or an object.
Truthy(v) ==
    v \notin {Null, Undefined}

\* DbStats snapshots a reply can carry: with and without the optional fields.
DbStatsValues ==
    { [total_records |-> 5, types |-> <<"image">>],
      [total_records |-> 7, types |-> <<"text", "audio">>, related_records |-> 2] }

Replies ==
    { <<"hi">> }

\* What can be thrown into the catch block: an Error with a message, or a
\* value that is no Error.
ErrorValue(t) ==
    [isError |-> TRUE, message |-> t]

NotAnError ==
    [isError |-> FALSE]

\* How the network can answer one request: fetch rejects, the status is
\* not ok (and the backend says why), the body does not parse, the body
\* parses to null (and line 110 throws), or the body parses to a reply.
NetOutcomes ==
    {[kind |-> "rejected", error |-> ErrorValue(t)] : t \in ErrorTexts}
    \cup {[kind |-> "rejected", error |-> NotAnError]}
    \cup {[kind |-> "notOk", backendError |-> t] : t \in {Boom, TokRateLimit}}
    \cup {[kind |-> "badBody", error |-> ErrorValue(t)] : t \in {Boom, TokModelNotFound}}
    \cup {[kind |-> "nullBody", error |-> ErrorValue(DataIsNull)]}
    \cup {[kind |-> "reply", body |-> [response |-> r, data |-> d]] :
             r \in Replies, d \in DbStatsValues \cup {Undefined, Null}}

(* ------------------------------- state --------------------------------- *)

VARIABLES
    messages,   \* useState<Message[]>: the conversation
    input,      \* useState(""): the text in the input box
    isLoading,  \* useState(false): the pending flag
    isTyping,   \* useState(false): the typing flag
    dbStats,    \* useState<DbStats | null>: the held database summary
    view,       \* what the last render captured for its handlers
    cycles,     \* the invocations of handleSendMessage that passed the guard
    now,        \* the last reading of Date.now()
    lastCall    \* the kind of the last intent emitted: a send or a clear

vars ==
    <<messages, input, isLoading, isTyping, dbStats, view, cycles, now,
      lastCall>>

\* Every render defines handleSendMessage, handleSubmit and clearChat anew;
\* they read messages, input and isLoading of that render, not the hooks.
Rendered ==
    [messages |-> messages, input |-> input, isLoading |-> isLoading]

Init ==
    /\ messages = <<>>
    /\ input = <<>>
    /\ isLoading = FALSE
    /\ isTyping = FALSE
    /\ dbStats = Null
    /\ view = [messages |-> <<>>, input |-> <<>>, isLoading |-> FALSE]
    /\ cycles = <<>>
    /\ now = 1
    /\ lastCall = "none"

Pending ==
    {i \in 1..Len(cycles) : cycles[i].pc = "PENDING"}

(* --------------------------- handleSendMessage ------------------------- *)

\* Date.now() and new Date() read t: the clock never runs backwards.
ReadClock(t) ==
    /\ t >= now
    /\ now' = t

\* The guard without the trim: only the empty string is refused.
DroppedUntrimmed(text) ==
    text = <<>> \/ view.isLoading

\* Line 76: the call returns at once for a text that is blank after
\* trimming, or when the render that defined this handler saw isLoading.
Dropped(text) ==
    Trim(text) = <<>> \/ view.isLoading

\* Lines 78-83.
UserMessage(text, t) ==
    [id |-> ToString(t), content |-> text, role |-> "user", timestamp |-> t]

\* Lines 96-99: the body of the POST; history is the render's messages.
RequestBody(text) ==
    [message |-> text,
     history |-> [k \in 1..Len(view.messages) |->
                    [content |-> view.messages[k].content,
                     role    |-> view.messages[k].role]]]

\* Lines 75-100: from the call to the suspension at await fetch(...).
handleSendMessage(text, t) ==
    IF Dropped(text)
    THEN UNCHANGED <<messages, input, isLoading, isTyping, cycles, now>>
    ELSE /\ ReadClock(t)
         /\ messages' = Append(messages, UserMessage(text, t))
         /\ input' = <<>>
         /\ isLoading' = TRUE
         /\ isTyping' = TRUE
         /\ cycles' = Append(cycles, [pc          |-> "PENDING",
                                      userMessage |-> UserMessage(text, t),
                                      request     |-> RequestBody(text)])

\* Lines 158-161: the form's submit sends the render's input.
handleSubmit(t) ==
    /\ lastCall' = "send"
    /\ handleSendMessage(view.input, t)
    /\ UNCHANGED <<dbStats, view>>

\* A suggestion button with a path of its own, past the guard of line 76.
SelectSuggestionUnguarded(q, t) ==
    /\ lastCall' = "send"
    /\ ReadClock(t)
    /\ messages' = Append(messages, UserMessage(q, t))
    /\ input' = <<>>
    /\ isLoading' = TRUE
    /\ isTyping' = TRUE
    /\ cycles' = Append(cycles, [pc          |-> "PENDING",
                                 userMessage |-> UserMessage(q, t),
                                 request     |-> RequestBody(q)])
    /\ UNCHANGED <<dbStats, view>>

\* Lines 317-326: a suggestion button sends its query.
SelectSuggestion(q, t) ==
    /\ lastCall' = "send"
    /\ handleSendMessage(q, t)
    /\ UNCHANGED <<dbStats, view>>

(* ---------------------- resolution of the request ---------------------- *)

\* The try block did not run to its end: fetch rejected, the status was
\* not ok (line 102), response.json() rejected (line 106), or the body was
\* null and reading data.response threw (line 110).
Throws(o) ==
    o.kind # "reply"

\* The value the catch block receives.  Line 103 throws a fixed Error for
\* every status that is not ok; nothing of the response is read before.
Caught(o) ==
    IF o.kind = "notOk" THEN ErrorValue(FailedToGetResponse) ELSE o.error

\* Lines 122-123.
ErrorMessageOf(error) ==
    IF error.isError THEN error.message ELSE ErrorDesconocido

\* The branches with the second test first.
CategoryRateFirst(errorMessage) ==
    IF Includes(errorMessage, TokRateLimit) THEN "RateLimited"
    ELSE IF Includes(errorMessage, TokModelNotFound) THEN "ModelUnavailable"
    ELSE IF Includes(errorMessage, TokInvalidRequest) THEN "InvalidRequest"
    ELSE "Unknown"

\* Lines 127-138: the branch taken for an error message.
Category(errorMessage) ==
    IF Includes(errorMessage, TokModelNotFound) THEN "ModelUnavailable"
    ELSE IF Includes(errorMessage, TokRateLimit) THEN "RateLimited"
    ELSE IF Includes(errorMessage, TokInvalidRequest) THEN "InvalidRequest"
    ELSE "Unknown"

\* Lines 128-137: the text each branch adds.
Template(category) ==
    CASE category = "ModelUnavailable" -> TemplateModel
      [] category = "RateLimited"      -> TemplateRate
      [] category = "InvalidRequest"   -> TemplateInvalid
      [] category = "Unknown"          -> TemplateUnknown

\* Lines 124-138.
UserFriendlyMessage(errorMessage) ==
    LeadIn \o Template(Category(errorMessage))

\* Lines 108-113.
AssistantMessage(data, t) ==
    [id |-> ToString(t + 1), content |-> data.response, role |-> "assistant",
     timestamp |-> t]

\* Lines 142-147.
ErrorBubble(errorMessage, t) ==
    [id |-> ToString(t), content |-> UserFriendlyMessage(errorMessage),
     role |-> "assistant", timestamp |-> t]

\* A catch block that forgets the database summary along with the failure.
CatchResettingStats(error, t) ==
    /\ messages' = Append(messages, ErrorBubble(ErrorMessageOf(error), t))
    /\ dbStats' = Null

\* The try block merging the new data into the held snapshot field by field.
TryMerging(data, t) ==
    /\ messages' = Append(messages, AssistantMessage(data, t))
    /\ dbStats' = IF ~Truthy(data.data) THEN dbStats
                  ELSE IF dbStats = Null THEN data.data
                  ELSE [f \in DOMAIN dbStats \cup DOMAIN data.data |->
                          IF f \in DOMAIN data.data THEN data.data[f] ELSE dbStats[f]]

\* The try block appending to the messages of its render (no updater
\* function), so that what was appended since is lost.
TryFromClosure(data, t) ==
    /\ messages' = Append(view.messages, AssistantMessage(data, t))
    /\ dbStats' = IF Truthy(data.data) THEN data.data ELSE dbStats

\* Lines 106-119: the rest of the try block for a parsed body.
Try(data, t) ==
    /\ messages' = Append(messages, AssistantMessage(data, t))
    /\ dbStats' = IF Truthy(data.data) THEN data.data ELSE dbStats

\* The catch block that logs the error and appends nothing.
CatchSilently(error, t) ==
    UNCHANGED <<messages, dbStats>>

\* Lines 120-148.
Catch(error, t) ==
    /\ messages' = Append(messages, ErrorBubble(ErrorMessageOf(error), t))
    /\ UNCHANGED dbStats

\* The finally block without its second line.
FinallyKeepsTyping ==
    /\ isLoading' = FALSE
    /\ UNCHANGED isTyping

\* Lines 149-155.
Finally ==
    /\ isLoading' = FALSE
    /\ isTyping' = FALSE

\* The network answers the request of cycle i with o, and the invocation
\* runs from its await to its end.  (The second await, of response.json(),
\* lies between two points with no state change, so it is not a step.)
Resolve(i, o, t) ==
    /\ cycles[i].pc = "PENDING"
    /\ ReadClock(t)
    /\ IF Throws(o) THEN Catch(Caught(o), t) ELSE Try(o.body, t)
    /\ Finally
    /\ cycles' = [cycles EXCEPT ![i] = [pc |-> IF Throws(o) THEN "FAILURE" ELSE "SUCCESS"]]
    /\ UNCHANGED <<input, view, lastCall>>

(* ------------------------- the other operations ------------------------ *)

\* A clear that also forgets the database summary.
clearChatAndStats ==
    /\ messages' = <<>>
    /\ dbStats' = Null
    /\ lastCall' = "clear"
    /\ UNCHANGED <<input, isLoading, isTyping, view, cycles, now>>

\* A clear that aborts the cycles in flight.
clearChatAborting ==
    /\ messages' = <<>>
    /\ isLoading' = FALSE
    /\ isTyping' = FALSE
    /\ cycles' = [i \in 1..Len(cycles) |->
                    IF cycles[i].pc = "PENDING" THEN [pc |-> "ABORTED"] ELSE cycles[i]]
    /\ lastCall' = "clear"
    /\ UNCHANGED <<input, dbStats, view, now>>

\* Lines 163-168.
clearChat ==
    /\ messages' = <<>>
    /\ lastCall' = "clear"
    /\ UNCHANGED <<input, isLoading, isTyping, dbStats, view, cycles, now>>

\* React renders the component again with the current hooks, and the
\* handlers of the new render replace those of the old one.  Nothing in the
\* component says when: a handler can run again before the render that
\* follows its own state updates.
Render ==
    /\ view # Rendered
    /\ view' = Rendered
    /\ UNCHANGED <<messages, input, isLoading, isTyping, dbStats, cycles, now,
                   lastCall>>

\* Line 355: the user edits the input box, and the box shows the edit,
\* which it does once the component has rendered with it.
Change(text) ==
    /\ text # input
    /\ input' = text
    /\ view' = [messages |-> messages, input |-> text, isLoading |-> isLoading]
    /\ UNCHANGED <<messages, isLoading, isTyping, dbStats, cycles, now, lastCall>>

(* ---------------------------- specifications --------------------------- *)

\* The suggestion the user picks (all five are fixed, non-blank texts that
\* the handler treats alike).
Picked ==
    {SUGGESTED_QUERIES[1]}

\* One answer of the network of each kind, and every shape of the data.
CoreOutcomes ==
    {[kind |-> "rejected", error |-> ErrorValue(Boom)],
     [kind |-> "notOk", backendError |-> TokRateLimit],
     [kind |-> "badBody", error |-> ErrorValue(Boom)],
     [kind |-> "nullBody", error |-> ErrorValue(DataIsNull)]}
    \cup {[kind |-> "reply", body |-> [response |-> r, data |-> d]] :
             r \in Replies, d \in DbStatsValues \cup {Undefined, Null}}

\* The intents and the answers of the network, with the clock reading an
\* instant of T, the network answering with an outcome of O, and at most
\* cap sends accepted in the session.
Submit(T, cap) ==
    \E t \in T : handleSubmit(t) /\ Len(cycles') <= cap

Suggest(T, cap) ==
    \E q \in Picked, t \in T : SelectSuggestion(q, t) /\ Len(cycles') <= cap

Answer(T, O) ==
    \E i \in 1..Len(cycles), o \in O, t \in T : Resolve(i, o, t)

Type ==
    \E text \in TypedTexts : Change(text)

\* The session within one instant of the clock.
Next ==
    \/ Submit({now}, MaxCycles)
    \/ Suggest({now}, MaxCycles)
    \/ Answer({now}, CoreOutcomes)
    \/ clearChat
    \/ Type
    \/ Render

Spec ==
    Init /\ [][Next]_vars

\* One cycle per session, every answer of the network.
NextErrors ==
    \/ Submit({now}, MaxErrorCycles)
    \/ Suggest({now}, MaxErrorCycles)
    \/ Answer({now}, NetOutcomes)
    \/ clearChat
    \/ Type
    \/ Render

SpecErrors ==
    Init /\ [][NextErrors]_vars

\* The session where every network call resolves in the end.
NextLive ==
    \/ Submit({now}, MaxLiveCycles)
    \/ Suggest({now}, MaxLiveCycles)
    \/ Answer({now}, CoreOutcomes)
    \/ clearChat
    \/ Type
    \/ Render

LiveSpec ==
    Init /\ [][NextLive]_vars /\ WF_vars(Answer({now}, CoreOutcomes))

\* Line 355 again: the user types the very text of a suggestion.
TypeSuggestion ==
    \E q \in Picked : Change(q)

\* The session where the input can hold the text of a suggestion.
NextSuggest ==
    \/ Submit({now}, MaxSuggestCycles)
    \/ Suggest({now}, MaxSuggestCycles)
    \/ Answer({now}, CoreOutcomes)
    \/ clearChat
    \/ Type
    \/ TypeSuggestion
    \/ Render

SpecSuggest ==
    Init /\ [][NextSuggest]_vars

\* The session with a running clock: every reading of Date.now() gives the
\* instant of the last reading or a later one, so that a send and its
\* resolution, or a resolution and the next send, fall in one millisecond,
\* in consecutive ones, or further apart.
NextClock ==
    \/ Submit(now..MaxNow, MaxClockCycles)
    \/ Suggest(now..MaxNow, MaxClockCycles)
    \/ Answer(now..MaxNow, CoreOutcomes)
    \/ clearChat
    \/ Type
    \/ Render

SpecClock ==
    Init /\ [][NextClock]_vars

(* ------------------------------- claims -------------------------------- *)

\* The flags of the state machine's IDLE state.
IDLE ==
    ~isLoading /\ ~isTyping

\* A step that is a send intent: the form's submit or a suggestion.
SendStep(text) ==
    \/ view.input = text /\ handleSubmit(now)
    \/ text \in Picked /\ SelectSuggestion(text, now)

\* A step in which the network answers cycle i with o: the cycle ends in
\* this step, and the step is the resolution with o.
ResolveStep(i, o) ==
    /\ cycles[i].pc = "PENDING"
    /\ cycles'[i].pc # "PENDING"
    /\ Resolve(i, o, now)

\* The texts a send can carry.
SendTexts ==
    TypedTexts \cup Picked

\* C1: in every reachable state at most one dispatch cycle is in flight
\* (PENDING), also when two sends are issued back to back before the flag
\* the first one set has reached the guard of the second.
C1_AtMostOnePending ==
    Cardinality(Pending) <= 1

\* C2: a send attempted while pending is true is dropped: it changes
\* neither the messages, nor the flags, nor the held DbStats, and issues no
\* network call.
C2_SendWhilePendingDropped ==
    [][\A text \in SendTexts :
          (isLoading /\ SendStep(text))
             => UNCHANGED <<messages, isLoading, isTyping, dbStats, cycles>>]_vars

\* C3: a send whose text is empty after trimming changes nothing in any
\* state: no message, no network call, the flags and the DbStats as before.
C3_BlankSendNoOp ==
    [][\A text \in SendTexts :
          (Trim(text) = <<>> /\ SendStep(text))
             => UNCHANGED <<messages, input, isLoading, isTyping, dbStats, cycles>>]_vars

\* The text in the input is whitespace only and the last intent was a
\* send; no send has been accepted in the session, so that send carried a
\* blank text to a handler whose render saw no cycle in flight.
C3_Witness ==
    /\ lastCall = "send"
    /\ view.input = <<" ">>
    /\ input = <<" ">>
    /\ ~view.isLoading
    /\ messages = <<>>
    /\ cycles = <<>>

\* C4: between the optimistic user message of a cycle and the resolution
\* message of that cycle no other message is appended: while a cycle is in
\* flight the sequence is empty (cleared) or ends with that cycle's user
\* message.
C4_NoAppendInterposes ==
    \A i \in Pending :
        messages = <<>> \/ messages[Len(messages)] = cycles[i].userMessage

\* C5: whenever the network call of a cycle resolves, with any outcome,
\* pending and typing are both cleared; and if every network call resolves
\* in the end, every state with a cycle in flight is followed by one with
\* none in flight and both flags cleared.
C5_FinalizationAlwaysRuns ==
    /\ [][\A i \in 1..Len(cycles), o \in CoreOutcomes : ResolveStep(i, o) => IDLE']_vars
    /\ (Pending # {} \/ isLoading \/ isTyping) ~> (Pending = {} /\ IDLE)

\* A cycle has ended in failure, its message is in the conversation, and
\* the session is idle.
C5_Witness ==
    /\ \E i \in 1..Len(cycles) : cycles[i].pc = "FAILURE"
    /\ Len(messages) = 2
    /\ Pending = {}
    /\ IDLE

\* The last message of the conversation.
Last(seq) ==
    seq[Len(seq)]

\* C6: every accepted cycle that ends in failure appends exactly one
\* assistant message, the shared lead-in followed by the template of the
\* category the classifier returns for the caught error's text.
C6_FailureAppendsOneMessage ==
    [][\A i \in 1..Len(cycles), o \in NetOutcomes :
          (ResolveStep(i, o) /\ Throws(o))
             => /\ Len(messages') = Len(messages) + 1
                /\ SubSeq(messages', 1, Len(messages)) = messages
                /\ Last(messages').role = "assistant"
                /\ Last(messages').content =
                      LeadIn \o Template(Category(ErrorMessageOf(Caught(o))))
                /\ cycles'[i].pc = "FAILURE"]_vars

\* A cycle has failed and the conversation is its user message followed by
\* the rate-limit message.
C6_Witness ==
    /\ Len(cycles) = 1
    /\ cycles[1].pc = "FAILURE"
    /\ Len(messages) = 2
    /\ messages[1].role = "user"
    /\ messages[2].role = "assistant"
    /\ messages[2].content = LeadIn \o TemplateRate

\* The raw error text of the backend in an answer: the message of the
\* transport error, the error text of the response with a status that is
\* not ok, the default text when there is none.
RawErrorText(o) ==
    IF o.kind = "notOk" THEN o.backendError
    ELSE IF o.error.isError THEN o.error.message
    ELSE ErrorDesconocido

\* C7: for a transport failure and for a status that is not ok alike, the
\* category of the appended error message is that of the backend's raw
\* error text.
C7_CategoryOfRawErrorText ==
    [][\A i \in 1..Len(cycles), o \in CoreOutcomes :
          (ResolveStep(i, o) /\ o.kind \in {"rejected", "notOk"})
             => Last(messages').content = LeadIn \o Template(Category(RawErrorText(o)))]_vars

\* The taxonomy as the ordered list of (token, category) pairs: the first
\* token the text contains decides, and Unknown is the catch-all.
Priority ==
    << [token |-> TokModelNotFound,  category |-> "ModelUnavailable"],
       [token |-> TokRateLimit,      category |-> "RateLimited"],
       [token |-> TokInvalidRequest, category |-> "InvalidRequest"] >>

FirstMatch(rawText) ==
    LET hits == {k \in 1..Len(Priority) : Includes(rawText, Priority[k].token)}
    IN  IF hits = {} THEN "Unknown"
        ELSE Priority[CHOOSE k \in hits : \A h \in hits : k <= h].category

ExpectedTemplate(category) ==
    CASE category = "ModelUnavailable" -> TemplateModel
      [] category = "RateLimited"      -> TemplateRate
      [] category = "InvalidRequest"   -> TemplateInvalid
      [] category = "Unknown"          -> TemplateUnknown

\* C8: the classifier is total with fixed priority: model_not_found, then
\* rate_limit, then invalid_request_error, else Unknown, and Unknown for an
\* absent text; the message appended for an error carries the template of
\* that category.
C8_ClassifierPriority ==
    [][\A i \in 1..Len(cycles), o \in NetOutcomes :
          (ResolveStep(i, o) /\ o.kind \in {"rejected", "badBody"})
             => Last(messages').content =
                   LeadIn \o ExpectedTemplate(IF o.error.isError
                                              THEN FirstMatch(o.error.message)
                                              ELSE "Unknown")]_vars

\* A failed cycle has been answered with the message for the model: among
\* the texts tried, some carry a lower-priority token besides.
C8_Witness ==
    /\ Len(cycles) = 1
    /\ cycles[1].pc = "FAILURE"
    /\ messages # <<>>
    /\ Last(messages).content = LeadIn \o TemplateModel

\* C9: after a successful cycle whose body carries data the held DbStats
\* is exactly that data; after one whose body carries none it is unchanged.
C9_StatsReplacedWholesale ==
    [][\A i \in 1..Len(cycles), o \in CoreOutcomes :
          (ResolveStep(i, o) /\ o.kind = "reply")
             => IF o.body.data \in DbStatsValues
                THEN dbStats' = o.body.data
                ELSE dbStats' = dbStats]_vars

\* Two cycles have succeeded and the held snapshot is the one without the
\* optional field.
C9_Witness ==
    /\ Len(cycles) = 2
    /\ \A i \in 1..2 : cycles[i].pc = "SUCCESS"
    /\ dbStats = [total_records |-> 5, types |-> <<"image">>]

\* C10: a clear, in any state, leaves the message sequence empty and the
\* held DbStats, pending and typing as they were.
C10_ClearEmptiesMessagesOnly ==
    [][clearChat => (messages' = <<>> /\ UNCHANGED <<dbStats, isLoading, isTyping>>)]_vars

\* The conversation has been cleared while a cycle is in flight and a
\* database summary is held.
C10_Witness ==
    /\ lastCall = "clear"
    /\ messages = <<>>
    /\ Pending # {}
    /\ isLoading
    /\ isTyping
    /\ dbStats \in DbStatsValues

\* C11: from one and the same state, selecting the suggestion q and
\* submitting the form whose input is q are the same step: the same guards
\* refuse both, and an accepted one leaves the same messages, flags, DbStats
\* and request in flight, hence the same cycle for every answer of the
\* network.
C11_SuggestionIsSubmit ==
    [][\A q \in Picked :
          view.input = q => (handleSubmit(now) <=> SelectSuggestion(q, now))]_vars

\* The form held the text of a suggestion when a send was accepted: the
\* conversation is that text alone and its cycle is in flight.
C11_Witness ==
    /\ lastCall = "send"
    /\ view.input \in Picked
    /\ Len(messages) = 1
    /\ messages[1].content = view.input
    /\ input = <<>>
    /\ Pending = {1}
    /\ isLoading

\* The number an id spells (ids are decimal spellings of clock readings).
IdNumber(id) ==
    CHOOSE n \in 0..(now + 1) : ToString(n) = id

\* C12: in every reachable state the ids of the messages are pairwise
\* distinct and increase with the position in the sequence, whatever the
\* instants at which sends and resolutions happen.
C12_IdsDistinctIncreasing ==
    \A j, k \in 1..Len(messages) :
        j < k => /\ messages[j].id # messages[k].id
                 /\ IdNumber(messages[j].id) < IdNumber(messages[k].id)

\* seq is longer by exactly one message at its end than old.
ExtendsByOne(old, seq) ==
    /\ Len(seq) = Len(old) + 1
    /\ SubSeq(seq, 1, Len(old)) = old

\* C13: the message sequence is append-only: every step that is not a
\* clear leaves it as it was or extends it by exactly one message at its
\* end, the messages before it in place and unaltered.
C13_AppendOnly ==
    [][~clearChat => (messages' = messages \/ ExtendsByOne(messages, messages'))]_vars

\* Two cycles have run to their end without a clear after the first send:
\* four messages, a user's first and an assistant's last.
C13_Witness ==
    /\ Len(cycles) = 2
    /\ Pending = {}
    /\ Len(messages) = 4
    /\ messages[1].role = "user"
    /\ messages[4].role = "assistant"

\* C14: the session stays usable after failures: the step that finalizes a
\* failed cycle leaves both flags cleared, and once a cycle has failed, with
\* no cycle in flight and both flags cleared, a send with a text that is
\* not blank is accepted and starts a new cycle.
C14_UsableAfterFailure ==
    [][/\ \A i \in 1..Len(cycles), o \in CoreOutcomes :
             (ResolveStep(i, o) /\ Throws(o)) => IDLE'
       /\ \A text \in SendTexts :
             (/\ \E i \in 1..Len(cycles) : cycles[i].pc = "FAILURE"
              /\ Pending = {}
              /\ IDLE
              /\ Trim(text) # <<>>
              /\ SendStep(text))
                => /\ Len(cycles') = Len(cycles) + 1
                   /\ Last(cycles').pc = "PENDING"
                   /\ isLoading']_vars

\* The content of the message that resolves a cycle answered with o.
ResolutionContent(o) ==
    IF o.kind = "reply" THEN o.body.response
    ELSE LeadIn \o ExpectedTemplate(FirstMatch(ErrorMessageOf(Caught(o))))

\* C15: a clear while a cycle is in flight does not cancel it: the clear
\* leaves the cycles in flight and both flags as they were, only the
\* resolution of a network call clears the pending flag, and the resolution
\* appends its message to the sequence as it then stands, cleared or not.
C15_ClearDoesNotAbort ==
    [][/\ (clearChat /\ Pending # {})
             => (Pending' = Pending /\ UNCHANGED <<cycles, isLoading, isTyping>>)
       /\ (isLoading /\ ~isLoading')
             => \E i \in 1..Len(cycles), o \in CoreOutcomes : ResolveStep(i, o)
       /\ \A i \in 1..Len(cycles), o \in CoreOutcomes :
             ResolveStep(i, o)
                => /\ ExtendsByOne(messages, messages')
                   /\ Last(messages').role = "assistant"
                   /\ Last(messages').content = ResolutionContent(o)]_vars

\* The only cycle of the session has resolved with a reply, and the reply
\* is all there is in the conversation: it was cleared while the cycle was
\* in flight.
C15_Witness ==
    /\ Len(cycles) = 1
    /\ cycles[1].pc = "SUCCESS"
    /\ Len(messages) = 1
    /\ messages[1].role = "assistant"
    /\ messages[1].content \in Replies
    /\ IDLE

\* The sequence seq reduced to {content, role} pairs, in the same order.
Reduced(seq) ==
    [k \in 1..Len(seq) |-> [content |-> seq[k].content, role |-> seq[k].role]]

\* C16: the request of an accepted send carries the text sent, and as its
\* history the message sequence as it stood immediately before the
\* optimistic append, reduced to {content, role} pairs: without the message
\* being sent, without ids or timestamps.
C16_HistoryIsPriorSequence ==
    [][\A text \in SendTexts :
          (SendStep(text) /\ Len(cycles') = Len(cycles) + 1)
             => /\ Last(cycles').request.message = text
                /\ Last(cycles').request.history = Reduced(messages)]_vars

\* C17: in every reachable state the message sequence alternates roles and
\* starts with a user message: the messages at the odd positions are users'
\* and those at the even positions assistants', so that every assistant
\* message comes right after a user message and none comes first.
C17_RolesAlternate ==
    \A k \in 1..Len(messages) :
        messages[k].role = IF k % 2 = 1 THEN "user" ELSE "assistant"

\* C18: a cycle that ends in failure leaves the held DbStats as it was,
\* whatever the failure: fetch rejected, status not ok, body not parsable,
\* body null.
C18_FailureKeepsStats ==
    [][\A i \in 1..Len(cycles), o \in CoreOutcomes :
          (ResolveStep(i, o) /\ Throws(o))
             => (dbStats' = dbStats /\ cycles'[i].pc = "FAILURE")]_vars

\* A database summary is held, and the last message of the conversation is
\* the error message of a cycle that failed after the summary arrived.
C18_Witness ==
    /\ dbStats \in DbStatsValues
    /\ Pending = {}
    /\ \E i \in 1..Len(cycles) : cycles[i].pc = "SUCCESS"
    /\ \E i \in 1..Len(cycles) : cycles[i].pc = "FAILURE"
    /\ Len(messages) = 4
    /\ messages[3].role = "assistant"
    /\ messages[3].content \in Replies
    /\ messages[4].content = LeadIn \o TemplateUnknown

====
